---------------------------- MODULE Spec2Model ----------------------------
(***************************************************************************)
(* A model of the Fashion Trends + Sustainability programs:                *)
(*   - the dashboard (src/app.py): the eco-score table loader and the      *)
(*     two-tier eco-score matcher find_ecoscore_rows,                      *)
(*   - the keyword table loader (src/app.py, src/scripts/pull-trends.py),  *)
(*   - the trend fetch of the dashboard's "Pull data" handler and the      *)
(*     batch extraction script (src/scripts/pull-trends.py),               *)
(*   - the REST backend (src/backend/main.py): the in-memory trend table,  *)
(*     the reload, lookup and summary handlers.                            *)
(* Text is a sequence of one-character strings, so that str.strip,         *)
(* str.lower, == and str.contains are computed character by character.     *)
(* Frames follow pandas before 3.0, which the code is written for: a text  *)
(* column has dtype object, and astype(str) turns a missing value into the *)
(* text "nan".  Each program runs on its own, under its own specification; *)
(* the variables of the other programs then keep their initial values.     *)
(***************************************************************************)
EXTENDS Integers, Sequences, FiniteSets, TLC

VARIABLES
    ecoFile,          \* the frame pd.read_csv returns for EcoScores_v2_ALL.csv
    eco_df,           \* app.py: the loaded eco-score table
    picked_keyword,   \* app.py: the keyword chosen in the sidebar
    pull_pressed,     \* app.py: "Pull data" was pressed in this run of the script
    eco_matches,      \* app.py: the result of the eco-score lookup of that run
    provider_reply,   \* what the trends provider answers to that run's request
    trend_df,         \* app.py: the result of the trend fetch of that run
    warning_shown,    \* app.py: st.warning("No trend data came back...") ran
    handler_raised,   \* app.py: an exception left the handler; the run stopped
    kwFile,           \* the frame pd.read_csv returns for "keywords - Sheet1.csv"
    kw_df,            \* the loaded keyword table
    kw_loaded,        \* load_keywords has returned
    scores,           \* backend: the trend scores of one keyword
    direction,        \* backend: their trend direction, once calculated
    cache_file,       \* data/trends_cache.json
    trends_data,      \* backend: the global in-memory table
    api_started,      \* backend: the startup event has run
    response,         \* backend: the response to the last request
    probe,            \* history: a record was appended to the file the table
                      \* was loaded from, and the table reloaded since
    last_load,        \* history: what the most recent load_data call found
    load_raises,      \* pull-trends.py: pd.read_csv of the keyword file raises
    main_pc,          \* pull-trends.py: where main is
    row_pos,          \* pull-trends.py: the rows of the table the loop has done
    all_trends,       \* pull-trends.py: the records gathered so far
    replies,          \* history: the provider's answer for each row done
    writes            \* history: how often the cache file was written

ecoVars == <<ecoFile, eco_df, picked_keyword, pull_pressed, eco_matches,
             provider_reply, trend_df, warning_shown, handler_raised>>
kwVars == <<kwFile, kw_df, kw_loaded>>
dirVars == <<scores, direction>>
apiVars == <<cache_file, trends_data, api_started, response, probe, last_load>>
batchVars == <<load_raises, main_pc, row_pos, all_trends, replies, writes>>

vars == <<ecoVars, kwVars, dirVars, apiVars, batchVars>>

----------------------------------------------------------------------------
(* Bounds of the model.                                                    *)

\* The most rows a table holds.
MaxRows == 2
\* The most characters of text the cells of one table hold together.
MaxChars == 3
\* The most characters a keyword holds.
MaxKwLen == 2
\* The most rows the keyword file holds.
MaxFileRows == 2
\* The most trend scores of one keyword.
MaxScores == 3
\* The most records the trend cache file holds.
MaxRecords == 2
\* The most points of time the trends provider answers with.
MaxPoints == 2
\* The most rows of the keyword file the extraction script reads.
MaxBatchRows == 2

----------------------------------------------------------------------------
(* Text.                                                                   *)

\* The characters of the model: a letter in both cases, the blank, and "^",
\* which is an ordinary character to == and a start anchor to a regular
\* expression.
Alphabet == {"a", "A", "^", " "}

\* All texts of exactly n characters, and of at most n.
RECURSIVE TextsOfLen(_)
TextsOfLen(n) ==
    IF n = 0 THEN {<<>>}
    ELSE {<<c>> \o s : c \in Alphabet, s \in TextsOfLen(n - 1)}

TextsUpTo(n) == UNION {TextsOfLen(k) : k \in 0..n}

\* str.lower(), one character.
LowerChar(c) == IF c = "A" THEN "a" ELSE IF c = "B" THEN "b" ELSE c

\* str.lower()
Lower(s) == [i \in 1..Len(s) |-> LowerChar(s[i])]

\* str.strip(): drops the leading and the trailing whitespace.
RECURSIVE LStrip(_)
LStrip(s) ==
    IF s # <<>> /\ Head(s) = " " THEN LStrip(Tail(s)) ELSE s

RECURSIVE RStrip(_)
RStrip(s) ==
    IF s # <<>> /\ s[Len(s)] = " " THEN RStrip(SubSeq(s, 1, Len(s) - 1)) ELSE s

Strip(s) == RStrip(LStrip(s))

\* re: does pattern pat, from its j-th element on, match text s from
\* position i on?  "^" asserts the start of the text and consumes nothing;
\* every other character of the alphabet matches itself.
RECURSIVE ReMatchFrom(_, _, _, _)
ReMatchFrom(pat, j, s, i) ==
    IF j > Len(pat) THEN TRUE
    ELSE IF pat[j] = "^" THEN i = 1 /\ ReMatchFrom(pat, j + 1, s, i)
    ELSE /\ i <= Len(s)
         /\ s[i] = pat[j]
         /\ ReMatchFrom(pat, j + 1, s, i + 1)

\* re.search(pat, s) finds a match
ReSearch(pat, s) == \E i \in 1..(Len(s) + 1) : ReMatchFrom(pat, 1, s, i)

----------------------------------------------------------------------------
(* Cells and frames.                                                       *)

\* A cell of a frame: text, a missing value, or a number.
StrCell(s) == [kind |-> "str", val |-> s]
NaN == [kind |-> "nan", val |-> <<>>]
NumCell == [kind |-> "num", val |-> <<>>]

\* Series.astype(str), one cell: text stays, a missing value becomes "nan".
AsStr(cell) ==
    IF cell.kind = "str" THEN cell.val
    ELSE IF cell.kind = "nan" THEN <<"n", "a", "n">>
    ELSE <<"0">>

\* pd.DataFrame(): no columns, no rows.
EmptyFrame == [columns |-> <<>>, rows |-> <<>>]

\* DataFrame.empty
IsEmpty(df) == Len(df.columns) = 0 \/ Len(df.rows) = 0

\* The positions in the set S, in ascending order: what a boolean mask
\* selects.
RECURSIVE Ascending(_)
Ascending(S) ==
    IF S = {} THEN <<>>
    ELSE LET m == CHOOSE x \in S : \A y \in S : x <= y
         IN  <<m>> \o Ascending(S \ {m})

\* seq restricted to the positions idx, in that order.
Pick(seq, idx) == [k \in 1..Len(idx) |-> seq[idx[k]]]

----------------------------------------------------------------------------
(* The eco-score table loader: load_ecoscores.                             *)

\* The column names that str.contains("^Unnamed") finds.
UnnamedNames == {"Unnamed: 2"}

\* c.strip() of a column name.
StripName(name) == IF name = " Brand " THEN "Brand" ELSE name

\* Mutant of StripCell: the cells are not stripped.
StripCell_NoStrip(cell) == StrCell(AsStr(cell))

\* df[c].astype(str).str.strip(), one cell of an object column.
StripCell(cell) == StrCell(Strip(AsStr(cell)))

\* load_ecoscores, applied to the frame read_csv returned: drops the
\* "Unnamed" columns, strips the column names and turns every cell of an
\* object column into its stripped text.
load_ecoscores(file) ==
    LET keep == Ascending({c \in 1..Len(file.columns) :
                              file.columns[c].name \notin UnnamedNames})
        cols == [k \in 1..Len(keep) |->
                    [name  |-> StripName(file.columns[keep[k]].name),
                     dtype |-> file.columns[keep[k]].dtype]]
    IN  [columns |-> cols,
         rows |-> [r \in 1..Len(file.rows) |->
                    [index |-> file.rows[r].index,
                     cells |-> [k \in 1..Len(keep) |->
                                 IF cols[k].dtype = "object"
                                 THEN StripCell(file.rows[r].cells[keep[k]])
                                 ELSE file.rows[r].cells[keep[k]]]]]]

----------------------------------------------------------------------------
(* The eco-score matcher: find_ecoscore_rows.                              *)

\* Mutant of NormKeyword: the keyword is not stripped.
NormKeyword_NoStrip(keyword) == Lower(keyword)

\* kw = keyword.strip().lower()
NormKeyword(keyword) == Lower(Strip(keyword))

\* text_cols: the columns of dtype object.
TextCols(df) == {c \in 1..Len(df.columns) : df.columns[c].dtype = "object"}

\* eco_df[c].astype(str).str.lower() == kw, one cell.
CellEquals(cell, kw) == Lower(AsStr(cell)) = kw

\* eco_df[c].astype(str).str.lower().str.contains(kw, na=False), one cell:
\* kw is read as a regular expression.
CellContains(cell, kw) == ReSearch(kw, Lower(AsStr(cell)))

\* exact_mask, one row: some text column equals kw.
ExactMask(df, kw, r) ==
    \E c \in TextCols(df) : CellEquals(df.rows[r].cells[c], kw)

\* contains_mask, one row: some text column contains kw.
ContainsMask(df, kw, r) ==
    \E c \in TextCols(df) : CellContains(df.rows[r].cells[c], kw)

\* eco_df[mask].copy() with the column match_type set to tag: the rows at
\* the positions idx, in that order, each keeping its index label.
Tagged(df, idx, tag) ==
    [columns |-> Append(df.columns, [name |-> "match_type", dtype |-> "object"]),
     rows |-> [k \in 1..Len(idx) |->
                [index      |-> df.rows[idx[k]].index,
                 cells      |-> df.rows[idx[k]].cells,
                 match_type |-> tag]]]

\* Mutant of find_ecoscore_rows: no short-circuit, the rows of both tiers
\* are returned together, each tagged by the tier that found it.
find_ecoscore_rows_BothTiers(df, keyword) ==
    LET kw  == NormKeyword(keyword)
        n   == Len(df.rows)
        any == Ascending({r \in 1..n :
                            ExactMask(df, kw, r) \/ ContainsMask(df, kw, r)})
    IN  IF TextCols(df) = {} \/ any = <<>> THEN EmptyFrame
        ELSE [columns |-> Append(df.columns, [name |-> "match_type", dtype |-> "object"]),
              rows |-> [k \in 1..Len(any) |->
                         [index      |-> df.rows[any[k]].index,
                          cells      |-> df.rows[any[k]].cells,
                          match_type |-> IF ExactMask(df, kw, any[k])
                                         THEN "exact" ELSE "contains"]]]

find_ecoscore_rows(df, keyword) ==
    LET kw       == NormKeyword(keyword)
        n        == Len(df.rows)
        exact    == Ascending({r \in 1..n : ExactMask(df, kw, r)})
        contains == Ascending({r \in 1..n : ContainsMask(df, kw, r)})
    IN  IF TextCols(df) = {} THEN EmptyFrame
        ELSE IF exact # <<>> THEN Tagged(df, exact, "exact")
        ELSE IF contains # <<>> THEN Tagged(df, contains, "contains")
        ELSE EmptyFrame

----------------------------------------------------------------------------
(* The inputs of the dashboard.                                            *)

\* The cells a text column of the file holds, of at most b characters:
\* read_csv reads an empty field as a missing value, so the text of a cell
\* is never empty (it may be blank).  A missing value counts as one
\* character.
Cost(cell) == IF cell.kind = "nan" THEN 1 ELSE Len(cell.val)

TextCells(b) ==
    {StrCell(s) : s \in TextsUpTo(b) \ {<<>>}} \cup (IF b >= 1 THEN {NaN} ELSE {})

\* All n-tuples of text cells holding at most b characters together.
RECURSIVE CellTuples(_, _)
CellTuples(n, b) ==
    IF n = 0 THEN {<<>>}
    ELSE UNION {{<<c>> \o t : t \in CellTuples(n - 1, b - Cost(c))} :
                    c \in TextCells(b)}

\* The frames read_csv returns, by the columns of the file: two text
\* columns; a text column, a number column and a blank "Unnamed" column;
\* a number column only.
ColsTextText == <<[name |-> "Material", dtype |-> "object"],
                  [name |-> " Brand ", dtype |-> "object"]>>
ColsTextNum == <<[name |-> "Material", dtype |-> "object"],
                 [name |-> "Score", dtype |-> "int64"],
                 [name |-> "Unnamed: 2", dtype |-> "float64"]>>
ColsNum == <<[name |-> "Score", dtype |-> "int64"]>>

\* read_csv infers dtype object only for a column that holds text, or no
\* row at all.
ObjectColumnsHoldText(file) ==
    \A c \in TextCols(file) :
        \/ Len(file.rows) = 0
        \/ \E r \in 1..Len(file.rows) : file.rows[r].cells[c].kind = "str"

\* read_csv labels the rows 0, 1, ...
FramesTextText(n) ==
    {[columns |-> ColsTextText,
      rows |-> [r \in 1..n |->
                 [index |-> r - 1, cells |-> <<t[2 * r - 1], t[2 * r]>>]]] :
        t \in CellTuples(2 * n, MaxChars)}

FramesTextNum(n) ==
    {[columns |-> ColsTextNum,
      rows |-> [r \in 1..n |->
                 [index |-> r - 1, cells |-> <<t[r], NumCell, NaN>>]]] :
        t \in CellTuples(n, MaxChars)}

FramesNum(n) ==
    {[columns |-> ColsNum,
      rows |-> [r \in 1..n |-> [index |-> r - 1, cells |-> <<NumCell>>]]]}

EcoFiles ==
    {f \in UNION {FramesTextText(n) \cup FramesTextNum(n) \cup FramesNum(n) :
                    n \in 0..MaxRows} :
        ObjectColumnsHoldText(f)}

Keywords == TextsUpTo(MaxKwLen)

----------------------------------------------------------------------------
(* The keyword table loader: load_keywords (the same code in app.py and in *)
(* scripts/pull-trends.py).                                                *)

\* df.columns = ["category", "keyword"]
KeywordColumns == <<[name |-> "category", dtype |-> "object"],
                    [name |-> "keyword", dtype |-> "object"]>>

\* df["keyword"] = df["keyword"].astype(str).str.strip(), one row.
KeywordStripped(row) ==
    [row EXCEPT !.cells[2] = StrCell(Strip(AsStr(row.cells[2])))]

\* df.dropna() keeps a row when none of its cells is missing.
NoneMissing(row) == \A c \in 1..Len(row.cells) : row.cells[c].kind # "nan"

\* drop_duplicates(subset=["keyword"]) keeps a row when no earlier row has
\* its keyword.
FirstOfKeyword(rows, i) ==
    \A j \in 1..(i - 1) : rows[j].cells[2] # rows[i].cells[2]

load_keywords(file) ==
    LET stripped == [r \in 1..Len(file.rows) |-> KeywordStripped(file.rows[r])]
        present  == Pick(stripped,
                         Ascending({r \in 1..Len(stripped) :
                                        NoneMissing(stripped[r])}))
        nonblank == Pick(present,
                         Ascending({r \in 1..Len(present) :
                                        present[r].cells[2] # StrCell(<<>>)}))
        unique   == Pick(nonblank,
                         Ascending({r \in 1..Len(nonblank) :
                                        FirstOfKeyword(nonblank, r)}))
    IN  [columns |-> KeywordColumns, rows |-> unique]

\* The frames read_csv(header=None) returns for a two-column keyword file:
\* every cell is text or missing.
Categories == {StrCell(<<"t", "o", "p", "s">>), StrCell(<<"d", "e", "n", "i", "m">>), NaN}

KeywordCells == {StrCell(s) : s \in TextsUpTo(MaxKwLen) \ {<<>>}} \cup {NaN}

KeywordFiles ==
    UNION {{[columns |-> <<[name |-> "0", dtype |-> "object"],
                           [name |-> "1", dtype |-> "object"]>>,
             rows |-> [r \in 1..n |-> [index |-> r - 1, cells |-> cells[r]]]] :
                cells \in [1..n -> Categories \X KeywordCells]} :
            n \in 0..MaxFileRows}

\* The keyword file is on disk; the script has not read it yet.
InitKeywords ==
    /\ kwFile \in KeywordFiles
    /\ kw_df = EmptyFrame
    /\ kw_loaded = FALSE

\* The variables of the keyword loader where another program runs.
NoKeywords ==
    /\ kwFile = EmptyFrame
    /\ kw_df = EmptyFrame
    /\ kw_loaded = FALSE

\* kw_df = load_keywords(KEYWORDS_PATH)
LoadKeywords ==
    /\ ~kw_loaded
    /\ kw_df' = load_keywords(kwFile)
    /\ kw_loaded' = TRUE
    /\ UNCHANGED kwFile
    /\ UNCHANGED <<ecoVars, dirVars, apiVars, batchVars>>

----------------------------------------------------------------------------
(* The backend: the trend direction.                                       *)

\* The change of score beyond which a trend goes up or down.
TrendThreshold == 5

\* A trend score: a number, or missing (pd.to_numeric(errors="coerce")
\* leaves NaN).
Score(v) == [nan |-> FALSE, v |-> v]
NaNScore == [nan |-> TRUE, v |-> 0]

\* Mutant of calculate_trend_direction: a change of exactly the threshold
\* counts as up or down.
calculate_trend_direction_Inclusive(list) ==
    IF Len(list) < 2 THEN "stable"
    ELSE IF list[Len(list)].nan \/ list[1].nan THEN "stable"
    ELSE IF list[Len(list)].v - list[1].v >= TrendThreshold THEN "up"
    ELSE IF list[Len(list)].v - list[1].v <= -TrendThreshold THEN "down"
    ELSE "stable"

\* calculate_trend_direction: scores[-1] - scores[0] is NaN when either
\* score is, and NaN is neither > 5 nor < -5.
calculate_trend_direction(list) ==
    IF Len(list) < 2 THEN "stable"
    ELSE IF list[Len(list)].nan \/ list[1].nan THEN "stable"
    ELSE IF list[Len(list)].v - list[1].v > TrendThreshold THEN "up"
    ELSE IF list[Len(list)].v - list[1].v < -TrendThreshold THEN "down"
    ELSE "stable"

ScoreValues == {Score(v) : v \in {10, 15, 20, 23, 26}} \cup {NaNScore}

ScoreLists == UNION {[1..n -> ScoreValues] : n \in 0..MaxScores}

InitDirection ==
    /\ scores \in ScoreLists
    /\ direction = "none"

NoDirection ==
    /\ scores = <<>>
    /\ direction = "none"

\* direction = calculate_trend_direction(trend_scores)
Classify ==
    /\ direction = "none"
    /\ direction' = calculate_trend_direction(scores)
    /\ UNCHANGED scores
    /\ UNCHANGED <<ecoVars, kwVars, apiVars, batchVars>>

----------------------------------------------------------------------------
(* The backend: the in-memory table and its handlers.                      *)

\* The keywords of the records and of the queries, and the records of the
\* cache file: {keyword, date, trend_score, category}.
RecordKeywords == {<<"a">>, <<"A">>, <<"b">>}

Record(k, d) ==
    [keyword |-> k, date |-> d, trend_score |-> 50, category |-> "tops"]

Records ==
    {Record(<<"a">>, "2026-01-04"), Record(<<"a">>, "2026-01-11"),
     Record(<<"A">>, "2026-01-04"), Record(<<"b">>, "2026-01-04")}

Tables == UNION {[1..n -> Records] : n \in 0..MaxRecords}

\* The cache file: absent, or holding a list of records.
NoFile == [exists |-> FALSE, records |-> <<>>]
FileOf(records) == [exists |-> TRUE, records |-> records]

\* Mutant of load_data: the records of the file are added to the table.
load_data_Merges(file, data) ==
    IF file.exists THEN data \o file.records ELSE data

\* Mutant of load_data: a missing file empties the table.
load_data_Clears(file, data) == IF file.exists THEN file.records ELSE <<>>

\* load_data: the table after the call, given the file and the table
\* before: the whole list of the file, or the table as it was when the file
\* does not exist.
load_data(file, data) == IF file.exists THEN file.records ELSE data

\* Mutant of get_unique_keywords: keywords are counted with repetition.
get_unique_keywords_Repeated(data) == 1..Len(data)

\* get_unique_keywords: sorted(list(set(...))); its elements, as a set
\* (the model reads only its length).
get_unique_keywords(data) == {data[i].keyword : i \in 1..Len(data)}

\* The optional brand parameter: not given (None), or a string.
NoBrand == [given |-> FALSE, name |-> ""]
Brands == {NoBrand, [given |-> TRUE, name |-> ""], [given |-> TRUE, name |-> "Patagonia"]}

\* brand if brand else "Generic"
BrandLabel(brand) == IF brand.given /\ brand.name # "" THEN brand.name ELSE "Generic"

\* A response: its kind, its status, the request parameters it answers, its
\* list of records and its statistics.
NoRequest == [keyword |-> <<>>, brand |-> NoBrand]
NoStats == [trends_count |-> 0, keywords_count |-> 0]
NoResponse ==
    [kind |-> "none", status |-> 0, request |-> NoRequest, body |-> <<>>,
     stats |-> NoStats]

StatsOf(data) ==
    [trends_count |-> Len(data),
     keywords_count |-> Cardinality(get_unique_keywords(data))]

\* reload_data (after load_data) and root: both report the statistics.
StatsResponse(kind, data) ==
    [kind |-> kind, status |-> 200, request |-> NoRequest, body |-> <<>>,
     stats |-> StatsOf(data)]

\* Mutant of KeywordMatches: the comparison heeds letter case.
KeywordMatches_CaseSensitive(t, keyword) == t.keyword = keyword

\* t['keyword'].lower() == keyword.lower()
KeywordMatches(t, keyword) == Lower(t.keyword) = Lower(keyword)

\* get_eco_score: the placeholder returns None.
get_eco_score(keyword) == "None"

\* get_trends: 404 when no record matches, else the matching records, each
\* with an eco_score and a brand field added.
get_trends(data, keyword, brand) ==
    LET filtered == Pick(data, Ascending({i \in 1..Len(data) :
                                            KeywordMatches(data[i], keyword)}))
    IN  IF filtered = <<>>
        THEN [kind |-> "trends", status |-> 404,
              request |-> [keyword |-> keyword, brand |-> brand],
              body |-> <<>>, stats |-> NoStats]
        ELSE [kind |-> "trends", status |-> 200,
              request |-> [keyword |-> keyword, brand |-> brand],
              body |-> [k \in 1..Len(filtered) |->
                          [keyword     |-> filtered[k].keyword,
                           date        |-> filtered[k].date,
                           trend_score |-> filtered[k].trend_score,
                           category    |-> filtered[k].category,
                           eco_score   |-> get_eco_score(keyword),
                           brand       |-> BrandLabel(brand)]],
              stats |-> NoStats]

\* The history variable: nothing to report; one record was appended to the
\* file the table was loaded from; the table was reloaded after that.  It
\* keeps the keyword count the API reported when the record was appended,
\* whether the record equals none of the file (novel) and whether its
\* keyword is the keyword of none of them (fresh).
NoProbe == [phase |-> "none", count |-> 0, novel |-> FALSE, fresh |-> FALSE]

\* The history of the most recent call of load_data: whether it found the
\* cache file, the records the file held when it did, and the table as it
\* was before the call when it did not.
NoLoad == [found |-> FALSE, held |-> <<>>, before |-> <<>>]

Found(file, data) ==
    IF file.exists THEN [found |-> TRUE, held |-> file.records, before |-> <<>>]
    ELSE [found |-> FALSE, held |-> <<>>, before |-> data]

\* The module is imported: the table is empty, the server not started.
InitApi ==
    /\ cache_file \in {NoFile} \cup {FileOf(t) : t \in Tables}
    /\ trends_data = <<>>
    /\ api_started = FALSE
    /\ response = NoResponse
    /\ probe = NoProbe
    /\ last_load = NoLoad

NoApi ==
    /\ cache_file = NoFile
    /\ trends_data = <<>>
    /\ api_started = FALSE
    /\ response = NoResponse
    /\ probe = NoProbe
    /\ last_load = NoLoad

\* The variables of the extraction script where another program runs.
NoBatch ==
    /\ load_raises = FALSE
    /\ main_pc = "none"
    /\ row_pos = 0
    /\ all_trends = <<>>
    /\ replies = <<>>
    /\ writes = 0

\* startup_event: load_data()
Startup ==
    /\ ~api_started
    /\ api_started' = TRUE
    /\ trends_data' = load_data(cache_file, trends_data)
    /\ last_load' = Found(cache_file, trends_data)
    /\ UNCHANGED <<cache_file, response, probe>>
    /\ UNCHANGED <<ecoVars, kwVars, dirVars, batchVars>>

\* POST /reload: load_data(), then the statistics of the table.
Reload ==
    /\ api_started
    /\ trends_data' = load_data(cache_file, trends_data)
    /\ response' = StatsResponse("reload", trends_data')
    /\ last_load' = Found(cache_file, trends_data)
    /\ probe' = IF probe.phase = "none" THEN NoProbe
                ELSE [probe EXCEPT !.phase = "reloaded"]
    /\ UNCHANGED <<cache_file, api_started>>
    /\ UNCHANGED <<ecoVars, kwVars, dirVars, batchVars>>

\* GET /
Root ==
    /\ api_started
    /\ response' = StatsResponse("root", trends_data)
    /\ UNCHANGED <<cache_file, trends_data, api_started, probe, last_load>>
    /\ UNCHANGED <<ecoVars, kwVars, dirVars, batchVars>>

\* GET /trends?keyword=&brand=
GetTrends ==
    /\ api_started
    /\ \E keyword \in RecordKeywords, brand \in Brands :
          response' = get_trends(trends_data, keyword, brand)
    /\ UNCHANGED <<cache_file, trends_data, api_started, probe, last_load>>
    /\ UNCHANGED <<ecoVars, kwVars, dirVars, batchVars>>

\* The extraction script rewrites the cache file wholesale
\* (json.dump(all_trends, f)); when the new list is the old one with one
\* record appended and the table equals the old list, the history variable
\* notes the keyword count the API reports at that moment.
WriteCache ==
    \E t \in Tables :
        /\ FileOf(t) # cache_file
        /\ cache_file' = FileOf(t)
        /\ probe' = IF /\ api_started
                       /\ cache_file.exists
                       /\ trends_data = cache_file.records
                       /\ Len(t) = Len(cache_file.records) + 1
                       /\ SubSeq(t, 1, Len(cache_file.records)) = cache_file.records
                    THEN [phase |-> "appended",
                          count |-> StatsOf(trends_data).keywords_count,
                          novel |-> \A i \in 1..Len(cache_file.records) :
                                        cache_file.records[i] # t[Len(t)],
                          fresh |-> \A i \in 1..Len(cache_file.records) :
                                        cache_file.records[i].keyword # t[Len(t)].keyword]
                    ELSE NoProbe
        /\ UNCHANGED <<trends_data, api_started, response, last_load>>
        /\ UNCHANGED <<ecoVars, kwVars, dirVars, batchVars>>

\* The cache file is deleted.
RemoveCache ==
    /\ cache_file.exists
    /\ cache_file' = NoFile
    /\ probe' = NoProbe
    /\ UNCHANGED <<trends_data, api_started, response, last_load>>
    /\ UNCHANGED <<ecoVars, kwVars, dirVars, batchVars>>

----------------------------------------------------------------------------
(* The trends provider and the trend fetch.                                *)

\* The dates of the points of time the provider answers with.
Dates == <<"2026-01-04", "2026-01-11", "2026-01-18", "2026-01-25">>

\* What pytrends does when asked for one keyword: build_payload or
\* interest_over_time raises (no network, HTTP 429, a refused request), or
\* interest_over_time returns None, or a frame indexed by date with a column
\* named after the keyword and the column isPartial; the frame may be empty.
ProviderError == [kind |-> "error", rows |-> <<>>]
ProviderNone == [kind |-> "none", rows |-> <<>>]
ProviderFrame(n) ==
    [kind |-> "frame",
     rows |-> [i \in 1..n |->
                 [date |-> Dates[i], value |-> 40 + 10 * i, isPartial |-> i = n]]]

Replies ==
    {ProviderError, ProviderNone} \cup {ProviderFrame(n) : n \in 0..MaxPoints}

\* The frame both fetch functions build from an answer that is not
\* an exception: empty when the answer is None or empty, else one row
\* {keyword, date, trend_score} per point of time, isPartial dropped.
TrendFrame(keyword, reply) ==
    IF reply.kind = "none" \/ Len(reply.rows) = 0 THEN <<>>
    ELSE [i \in 1..Len(reply.rows) |->
            [keyword |-> keyword, date |-> reply.rows[i].date,
             trend_score |-> reply.rows[i].value]]

\* app.py pull_interest_over_time: the provider is called with nothing to
\* catch what it raises, so the exception leaves the function.
pull_interest_over_time(keyword, reply) ==
    IF reply.kind = "error" THEN [raised |-> TRUE, rows |-> <<>>]
    ELSE [raised |-> FALSE, rows |-> TrendFrame(keyword, reply)]

\* pull-trends.py pull_interest_over_time: the same inside try/except, which
\* turns an exception into an empty frame.
batch_pull_interest_over_time(keyword, reply) ==
    IF reply.kind = "error" THEN <<>> ELSE TrendFrame(keyword, reply)

----------------------------------------------------------------------------
(* The dashboard.                                                          *)

\* The variables of a run of the script that has not pressed the button.
NotPulled ==
    /\ pull_pressed = FALSE
    /\ eco_matches = EmptyFrame
    /\ trend_df = <<>>
    /\ warning_shown = FALSE
    /\ handler_raised = FALSE

\* The script has loaded the eco-score file and a keyword is selected; the
\* button was not pressed.  The provider has data for the keyword.
Init ==
    /\ ecoFile \in EcoFiles
    /\ eco_df = load_ecoscores(ecoFile)
    /\ picked_keyword \in Keywords
    /\ provider_reply = ProviderFrame(1)
    /\ NotPulled
    /\ NoKeywords /\ NoDirection /\ NoApi /\ NoBatch

\* The user presses "Pull data": the trend fetch, the warning when it is
\* empty, then the eco-score lookup.  An exception of the fetch is caught
\* nowhere in the script: it ends the run before the warning and the lookup.
PullData ==
    /\ ~pull_pressed
    /\ pull_pressed' = TRUE
    /\ LET fetch == pull_interest_over_time(picked_keyword, provider_reply)
       IN  IF fetch.raised
           THEN /\ handler_raised' = TRUE
                /\ UNCHANGED <<trend_df, warning_shown, eco_matches>>
           ELSE /\ trend_df' = fetch.rows
                /\ warning_shown' = (fetch.rows = <<>>)
                /\ eco_matches' = find_ecoscore_rows(eco_df, picked_keyword)
                /\ UNCHANGED handler_raised
    /\ UNCHANGED <<ecoFile, eco_df, picked_keyword, provider_reply>>
    /\ UNCHANGED <<kwVars, dirVars, apiVars, batchVars>>

Next == PullData

Spec == Init /\ [][Next]_vars

----------------------------------------------------------------------------
(* The dashboard with a provider that answers in any way, over the         *)
(* eco-score tables of at most one row.                                    *)

InitFetch ==
    /\ ecoFile \in {f \in EcoFiles : Len(f.rows) <= 1}
    /\ eco_df = load_ecoscores(ecoFile)
    /\ picked_keyword \in Keywords
    /\ provider_reply \in Replies
    /\ NotPulled
    /\ NoKeywords /\ NoDirection /\ NoApi /\ NoBatch

NextFetch == PullData

SpecFetch == InitFetch /\ [][NextFetch]_vars

----------------------------------------------------------------------------
(* The keyword loader, run on its own.                                     *)

\* The variables of the dashboard where another program runs.
NoDashboard ==
    /\ ecoFile = EmptyFrame
    /\ eco_df = EmptyFrame
    /\ picked_keyword = <<>>
    /\ provider_reply = ProviderNone
    /\ NotPulled

InitLoader == InitKeywords /\ NoDashboard /\ NoDirection /\ NoApi /\ NoBatch

NextLoader == LoadKeywords

SpecKeywords == InitLoader /\ [][NextLoader]_vars

----------------------------------------------------------------------------
(* The trend direction classifier, applied to every list of scores.        *)

InitClassifier == InitDirection /\ NoDashboard /\ NoKeywords /\ NoApi /\ NoBatch

NextClassifier == Classify

SpecDirection == InitClassifier /\ [][NextClassifier]_vars

----------------------------------------------------------------------------
(* The backend server and the cache file.                                  *)

InitServer == InitApi /\ NoDashboard /\ NoKeywords /\ NoDirection /\ NoBatch

NextServer ==
    \/ Startup
    \/ Reload
    \/ Root
    \/ GetTrends
    \/ WriteCache
    \/ RemoveCache

SpecApi == InitServer /\ [][NextServer]_vars

----------------------------------------------------------------------------
(* The batch extraction script: main of scripts/pull-trends.py.            *)

\* The frames read_csv(header=None) returns for the keyword file of a run:
\* an empty file makes read_csv raise, so there is a row.
BatchCategories == {StrCell(<<"t", "o", "p", "s">>), NaN}

BatchKeywordCells ==
    {StrCell(<<"a">>), StrCell(<<"a", " ">>), StrCell(<<"b">>), NaN}

BatchKeywordFiles ==
    UNION {{[columns |-> <<[name |-> "0", dtype |-> "object"],
                           [name |-> "1", dtype |-> "object"]>>,
             rows |-> [r \in 1..n |-> [index |-> r - 1, cells |-> cells[r]]]] :
                cells \in [1..n -> BatchCategories \X BatchKeywordCells]} :
            n \in 1..MaxBatchRows}

\* A record an earlier run left in the cache file.
StaleRecord ==
    [keyword |-> <<"b">>, date |-> "2025-12-28", trend_score |-> 7,
     category |-> <<"t", "o", "p", "s">>]

\* The script starts: the keyword file is on disk, readable or not; the
\* cache file is absent or left by an earlier run.
InitMain ==
    /\ kwFile \in BatchKeywordFiles
    /\ kw_df = EmptyFrame
    /\ kw_loaded = FALSE
    /\ load_raises \in BOOLEAN
    /\ main_pc = "start"
    /\ row_pos = 0
    /\ all_trends = <<>>
    /\ replies = <<>>
    /\ writes = 0
    /\ cache_file \in {NoFile, FileOf(<<StaleRecord>>)}
    /\ trends_data = <<>>
    /\ api_started = FALSE
    /\ response = NoResponse
    /\ probe = NoProbe
    /\ last_load = NoLoad

\* main, "Load keywords": keywords_df = load_keywords(KEYWORDS_PATH) in
\* try/except; on an exception main prints the error and returns.
MainLoadKeywords ==
    /\ main_pc = "start"
    /\ IF load_raises
       THEN /\ main_pc' = "returned"
            /\ UNCHANGED <<kw_df, kw_loaded>>
       ELSE /\ kw_df' = load_keywords(kwFile)
            /\ kw_loaded' = TRUE
            /\ main_pc' = "loop"
    /\ UNCHANGED <<kwFile, load_raises, row_pos, all_trends, replies, writes>>
    /\ UNCHANGED <<ecoVars, dirVars, apiVars>>

\* record['category'] = category, for each record of trend_data.
WithCategory(trend_data, category) ==
    [i \in 1..Len(trend_data) |->
        [keyword |-> trend_data[i].keyword, date |-> trend_data[i].date,
         trend_score |-> trend_data[i].trend_score, category |-> category]]

\* Mutant of Extend: the new records replace the gathered ones.
Extend_Replace(list, records) == records

\* all_trends.extend(records)
Extend(list, records) == list \o records

\* One turn of the loop over keywords_df.iterrows(): the fetch of the
\* keyword of the next row, its records added when it is not empty, then
\* time.sleep(3).
FetchKeyword ==
    /\ main_pc = "loop"
    /\ row_pos < Len(kw_df.rows)
    /\ \E reply \in Replies :
          LET row        == kw_df.rows[row_pos + 1]
              keyword    == AsStr(row.cells[2])
              category   == AsStr(row.cells[1])
              trend_data == batch_pull_interest_over_time(keyword, reply)
          IN  /\ all_trends' = IF trend_data # <<>>
                               THEN Extend(all_trends,
                                           WithCategory(trend_data, category))
                               ELSE all_trends
              /\ replies' = Append(replies, reply)
    /\ row_pos' = row_pos + 1
    /\ UNCHANGED <<load_raises, main_pc, writes>>
    /\ UNCHANGED <<ecoVars, kwVars, dirVars, apiVars>>

\* After the loop: open(OUTPUT_PATH, 'w'), json.dump(all_trends, f).
SaveCache ==
    /\ main_pc = "loop"
    /\ row_pos = Len(kw_df.rows)
    /\ cache_file' = FileOf(all_trends)
    /\ writes' = writes + 1
    /\ main_pc' = "done"
    /\ UNCHANGED <<load_raises, row_pos, all_trends, replies>>
    /\ UNCHANGED <<trends_data, api_started, response, probe, last_load>>
    /\ UNCHANGED <<ecoVars, kwVars, dirVars>>

InitBatch == InitMain /\ NoDashboard /\ NoDirection

NextBatch ==
    \/ MainLoadKeywords
    \/ FetchKeyword
    \/ SaveCache

\* The script is one sequential process: a turn of the loop that can run
\* does run (the provider call returns or raises, the sleep ends), and so
\* does the write after the last turn.
SpecBatch ==
    InitBatch /\ [][NextBatch]_vars
        /\ WF_vars(FetchKeyword) /\ WF_vars(SaveCache)

----------------------------------------------------------------------------
(* What the claims about the matcher speak of.                             *)

\* The keyword as the matcher is said to compare it: trimmed, lower case.
TrimmedLower(keyword) == Lower(Strip(keyword))

\* The text of the cell of row r, column c, as the matcher is said to
\* compare it: ignoring letter case.
CellText(df, r, c) == Lower(AsStr(df.rows[r].cells[c]))

\* k occurs in s as a plain substring.
IsSubstring(k, s) ==
    \E i \in 0..(Len(s) - Len(k)) : SubSeq(s, i + 1, i + Len(k)) = k

\* The rows of df (by position) with a text cell equal to kw, and those with
\* a text cell that has kw as a plain substring.
RowsEqual(df, kw) ==
    {r \in 1..Len(df.rows) : \E c \in TextCols(df) : CellText(df, r, c) = kw}

RowsHolding(df, kw) ==
    {r \in 1..Len(df.rows) :
        \E c \in TextCols(df) : IsSubstring(kw, CellText(df, r, c))}

\* The index labels of the rows of a result, as a set, and the labels of the
\* rows of df at the positions in rs.
ResultLabels(res) == {res.rows[k].index : k \in 1..Len(res.rows)}

LabelsOf(df, rs) == {df.rows[r].index : r \in rs}

AllTagged(res, tag) == \A k \in 1..Len(res.rows) : res.rows[k].match_type = tag

\* C1: when the keyword, trimmed and in lower case, is the content of some
\* text cell of the table, the result of the lookup is not empty, all its
\* rows are tagged "exact", and every row holding such a cell is in it.
C1_ExactTier ==
    pull_pressed =>
        LET kw   == TrimmedLower(picked_keyword)
            rows == {r \in 1..Len(eco_df.rows) :
                        \E c \in TextCols(eco_df) :
                            AsStr(eco_df.rows[r].cells[c]) = kw}
        IN  rows # {} =>
                /\ ~IsEmpty(eco_matches)
                /\ AllTagged(eco_matches, "exact")
                /\ LabelsOf(eco_df, rows) \subseteq ResultLabels(eco_matches)

\* A lookup whose keyword had to be trimmed or lower-cased found one of the
\* two rows of the table by an exact match.
C1_Witness ==
    /\ pull_pressed
    /\ picked_keyword # TrimmedLower(picked_keyword)
    /\ RowsEqual(eco_df, TrimmedLower(picked_keyword)) # {}
    /\ Len(eco_df.rows) = 2
    /\ Len(eco_matches.rows) = 1
    /\ AllTagged(eco_matches, "exact")

\* C2: when the keyword equals no text cell but is a plain substring of some
\* text cell, the result is not empty, all its rows are tagged "contains",
\* and its rows are exactly the rows with a text cell holding the keyword as
\* a plain substring.
C2_ContainsTier ==
    pull_pressed =>
        LET kw == TrimmedLower(picked_keyword)
        IN  (RowsEqual(eco_df, kw) = {} /\ RowsHolding(eco_df, kw) # {}) =>
                /\ ~IsEmpty(eco_matches)
                /\ AllTagged(eco_matches, "contains")
                /\ ResultLabels(eco_matches) = LabelsOf(eco_df, RowsHolding(eco_df, kw))

\* C3: the result is empty when the keyword neither equals nor is a plain
\* substring of any text cell, and for every keyword when the table has no
\* row or no text column.
C3_NoMatch ==
    pull_pressed =>
        LET kw == TrimmedLower(picked_keyword)
        IN  /\ (RowsEqual(eco_df, kw) = {} /\ RowsHolding(eco_df, kw) = {})
                => IsEmpty(eco_matches)
            /\ (Len(eco_df.rows) = 0 \/ TextCols(eco_df) = {})
                => IsEmpty(eco_matches)

\* The rows of a result, each by its index label and its tag.
Outcome(res) ==
    [k \in 1..Len(res.rows) |-> <<res.rows[k].index, res.rows[k].match_type>>]

\* One change of letter case in the text s, or one blank added before or
\* after it.
ToggleCase(c) == IF c = "a" THEN "A" ELSE IF c = "A" THEN "a" ELSE c

Respelled(s) ==
    {[s EXCEPT ![i] = ToggleCase(s[i])] : i \in 1..Len(s)}
        \cup {<<" ">> \o s, s \o <<" ">>}

\* The files that differ from file by such a change in one cell that holds
\* text (a missing value has no text to respell).
RespelledFiles(file) ==
    UNION {{[file EXCEPT !.rows[rc[1]].cells[rc[2]] = StrCell(t)] :
                t \in Respelled(file.rows[rc[1]].cells[rc[2]].val)} :
            rc \in {p \in (1..Len(file.rows)) \X TextCols(file) :
                        file.rows[p[1]].cells[p[2]].kind = "str"}}

\* C4: matching ignores letter case and surrounding whitespace on both
\* sides: changing the case of a letter of the keyword or of a text cell of
\* the file, or adding a blank before or after it, changes neither the rows
\* the lookup returns nor their match_type.
C4_CaseAndBlanksIgnored ==
    pull_pressed =>
        /\ \A k \in Respelled(picked_keyword) :
              Outcome(find_ecoscore_rows(eco_df, k)) = Outcome(eco_matches)
        /\ \A f \in RespelledFiles(ecoFile) :
              Outcome(find_ecoscore_rows(load_ecoscores(f), picked_keyword))
                  = Outcome(eco_matches)

\* A lookup found a row although the keyword and the cell of the file are
\* spelled differently: the cell of the file had blanks to strip and the
\* keyword a capital letter.
C4_Witness ==
    /\ pull_pressed
    /\ ~IsEmpty(eco_matches)
    /\ AllTagged(eco_matches, "exact")
    /\ picked_keyword # Lower(picked_keyword)
    /\ \E r \in 1..Len(ecoFile.rows) :
          /\ ecoFile.rows[r].cells[1].kind = "str"
          /\ ecoFile.rows[r].cells[1] # eco_df.rows[r].cells[1]
          /\ ecoFile.rows[r].index \in ResultLabels(eco_matches)

\* C5: a result is empty, or all "exact", or all "contains"; a "contains"
\* result is returned only when no row of the table equals the keyword, and
\* no result holds a row that equals the keyword beside one that does not.
C5_TiersNeverMixed ==
    pull_pressed =>
        LET kw    == TrimmedLower(picked_keyword)
            equal == LabelsOf(eco_df, RowsEqual(eco_df, kw))
        IN  /\ \/ IsEmpty(eco_matches)
               \/ AllTagged(eco_matches, "exact")
               \/ AllTagged(eco_matches, "contains")
            /\ (~IsEmpty(eco_matches) /\ AllTagged(eco_matches, "contains"))
                  => equal = {}
            /\ ResultLabels(eco_matches) \cap equal # {}
                  => ResultLabels(eco_matches) \subseteq equal

\* The table holds a row that equals the keyword and a row that only
\* contains it: the lookup returned the first alone.
C5_Witness ==
    /\ pull_pressed
    /\ LET kw == TrimmedLower(picked_keyword)
       IN  /\ RowsEqual(eco_df, kw) # {}
           /\ RowsHolding(eco_df, kw) \ RowsEqual(eco_df, kw) # {}
           /\ ResultLabels(eco_matches) = LabelsOf(eco_df, RowsEqual(eco_df, kw))
    /\ AllTagged(eco_matches, "exact")

\* C6: the rows of a result are in the order of the table, none twice, and
\* every row that qualifies in the winning tier (equal to the keyword; if no
\* row is, holding it as a plain substring) is returned.
C6_OrderAndCompleteness ==
    pull_pressed =>
        LET kw      == TrimmedLower(picked_keyword)
            winners == IF RowsEqual(eco_df, kw) # {}
                       THEN RowsEqual(eco_df, kw) ELSE RowsHolding(eco_df, kw)
        IN  /\ \A i, j \in 1..Len(eco_matches.rows) :
                  i < j => eco_matches.rows[i].index < eco_matches.rows[j].index
            /\ LabelsOf(eco_df, winners) \subseteq ResultLabels(eco_matches)

----------------------------------------------------------------------------
(* What the claim about the keyword loader speaks of.                      *)

\* The keyword of a row of the loaded table, and of a row of the file.
KeywordOf(row) == row.cells[2]

\* C7: the loaded table has pairwise distinct keywords, each trimmed and not
\* empty; a row of the file whose keyword cell is missing yields no row;
\* and when two rows of the file carry the same keyword and differ in
\* category, exactly one row for that keyword is loaded.
C7_LoadedKeywords ==
    kw_loaded =>
        /\ \A i, j \in 1..Len(kw_df.rows) :
              i # j => KeywordOf(kw_df.rows[i]) # KeywordOf(kw_df.rows[j])
        /\ \A i \in 1..Len(kw_df.rows) :
              /\ KeywordOf(kw_df.rows[i]).kind = "str"
              /\ KeywordOf(kw_df.rows[i]).val # <<>>
              /\ Strip(KeywordOf(kw_df.rows[i]).val) = KeywordOf(kw_df.rows[i]).val
        /\ \A r \in 1..Len(kwFile.rows) :
              KeywordOf(kwFile.rows[r]).kind = "nan"
                  => kwFile.rows[r].index \notin ResultLabels(kw_df)
        /\ \A r, q \in 1..Len(kwFile.rows) :
              (/\ r # q
               /\ KeywordOf(kwFile.rows[r]).kind = "str"
               /\ Strip(KeywordOf(kwFile.rows[r]).val) # <<>>
               /\ KeywordOf(kwFile.rows[r]) = KeywordOf(kwFile.rows[q])
               /\ kwFile.rows[r].cells[1] # kwFile.rows[q].cells[1])
                  => Cardinality({i \in 1..Len(kw_df.rows) :
                        KeywordOf(kw_df.rows[i]).val
                            = Strip(KeywordOf(kwFile.rows[r]).val)}) = 1

----------------------------------------------------------------------------
(* What the claims about the backend speak of.                             *)

\* Last score minus first score, where both are numbers.
HasChange(list) == Len(list) >= 2 /\ ~list[1].nan /\ ~list[Len(list)].nan

Change(list) == list[Len(list)].v - list[1].v

\* C8: the direction is "up" exactly when last minus first is greater than
\* 5, "down" exactly when it is less than -5, "stable" otherwise and for
\* fewer than two scores; [10, 20] is "up", [20, 10] "down", [20, 23]
\* "stable", and a change of exactly +5 or -5 is "stable".
C8_TrendDirection ==
    direction # "none" =>
        /\ direction \in {"up", "down", "stable"}
        /\ direction = "up" <=> (HasChange(scores) /\ Change(scores) > 5)
        /\ direction = "down" <=> (HasChange(scores) /\ Change(scores) < -5)
        /\ Len(scores) < 2 => direction = "stable"
        /\ scores = <<Score(10), Score(20)>> => direction = "up"
        /\ scores = <<Score(20), Score(10)>> => direction = "down"
        /\ scores = <<Score(20), Score(23)>> => direction = "stable"
        /\ (HasChange(scores) /\ Change(scores) \in {5, -5}) => direction = "stable"

\* A list of three scores whose last is exactly 5 above its first was
\* classified.
C8_Witness ==
    /\ direction = "stable"
    /\ Len(scores) = 3
    /\ HasChange(scores)
    /\ Change(scores) = 5

\* The response reports the statistics of the table.
ReportsStats == response.kind \in {"reload", "root"}

\* C9, as stated: after a new record is appended to the cache file and the
\* table reloaded, the keywords_count the API reports is one greater than
\* before the append.
C9_CountGrowsByOne ==
    (probe.phase = "reloaded" /\ probe.novel /\ ReportsStats) =>
        response.stats.keywords_count = probe.count + 1

\* C9, amended: it is one greater when no record already in the file has
\* the keyword of the appended record, and the same as before otherwise.
C9_CountGrowsForNewKeyword ==
    (probe.phase = "reloaded" /\ ReportsStats) =>
        response.stats.keywords_count
            = probe.count + (IF probe.fresh THEN 1 ELSE 0)

\* A reload after the append of a record with a new keyword to a file that
\* held a record already.
C9_Witness ==
    /\ probe.phase = "reloaded"
    /\ probe.fresh
    /\ probe.count = 1
    /\ response.kind = "reload"
    /\ response.stats.keywords_count = 2

\* A list of records without the fields the lookup adds.
Plain(body) ==
    [k \in 1..Len(body) |->
        [keyword |-> body[k].keyword, date |-> body[k].date,
         trend_score |-> body[k].trend_score, category |-> body[k].category]]

\* The records of the table whose keyword equals keyword ignoring case, in
\* table order.
RECURSIVE SameKeyword(_, _)
SameKeyword(data, keyword) ==
    IF data = <<>> THEN <<>>
    ELSE (IF Lower(Head(data).keyword) = Lower(keyword)
          THEN <<Head(data)>> ELSE <<>>) \o SameKeyword(Tail(data), keyword)

----------------------------------------------------------------------------
(* What the claim about the batch extraction speaks of.                    *)

\* The provider returned data for a keyword: a frame that is not empty.
ReturnedData(reply) == reply.kind = "frame" /\ Len(reply.rows) > 0

\* The records of the keyword of one row of the table, given the answer of
\* the provider: none unless it returned data.
RecordsOfRow(row, reply) ==
    IF ReturnedData(reply)
    THEN [i \in 1..Len(reply.rows) |->
            [keyword |-> row.cells[2].val, date |-> reply.rows[i].date,
             trend_score |-> reply.rows[i].value,
             category |-> row.cells[1].val]]
    ELSE <<>>

\* The records of the first n rows of the table, grouped in table order.
RECURSIVE Gathered(_, _, _)
Gathered(rows, reps, n) ==
    IF n = 0 THEN <<>>
    ELSE Gathered(rows, reps, n - 1) \o RecordsOfRow(rows[n], reps[n])

\* C11: once the keyword table is loaded, the rows are processed one at a
\* time in table order: after each turn the gathered records are those of
\* the rows done so far whose keyword returned data, in that order, so a
\* failure or an empty answer adds nothing; a turn always goes on to the
\* next row, whatever the provider answered; the cache file is not written
\* before the end and is written once, with all the gathered records; and
\* the run does end with that write.
C11_BatchExtraction ==
    /\ [](main_pc \in {"loop", "done"} =>
            /\ Len(replies) = row_pos
            /\ row_pos <= Len(kw_df.rows)
            /\ all_trends = Gathered(kw_df.rows, replies, row_pos))
    /\ [][main_pc = "loop" /\ row_pos < Len(kw_df.rows) =>
            /\ main_pc' = "loop"
            /\ row_pos' = row_pos + 1
            /\ cache_file' = cache_file]_vars
    /\ [](main_pc # "done" => writes = 0)
    /\ [](main_pc = "done" =>
            /\ writes = 1
            /\ row_pos = Len(kw_df.rows)
            /\ cache_file = FileOf(Gathered(kw_df.rows, replies, Len(kw_df.rows))))
    /\ (kw_loaded ~> main_pc = "done")

\* A run over two keywords has ended: the provider failed for the first and
\* returned two points for the second, and the cache file, which held a
\* record of an earlier run, holds the two records of the second keyword.
C11_Witness ==
    /\ main_pc = "done"
    /\ Len(kw_df.rows) = 2
    /\ replies = <<ProviderError, ProviderFrame(2)>>
    /\ Len(cache_file.records) = 2
    /\ cache_file.records[1].keyword = kw_df.rows[2].cells[2].val
    /\ StaleRecord \notin {cache_file.records[i] : i \in 1..2}

----------------------------------------------------------------------------
(* What the claim about the dashboard's trend fetch speaks of.             *)

\* The provider returned nothing, or the call to it failed.
NothingOrFailed(reply) == ~ReturnedData(reply)

\* C12: when the button was pressed and the provider returned nothing or the
\* call to it failed, the fetch has yielded an empty result, the warning is
\* shown, and the run was not aborted: it went on to the eco-score lookup
\* for the picked keyword, whose result is there.
C12_FetchFailureContinues ==
    (pull_pressed /\ NothingOrFailed(provider_reply)) =>
        /\ trend_df = <<>>
        /\ warning_shown
        /\ ~handler_raised
        /\ eco_matches = find_ecoscore_rows(eco_df, picked_keyword)

----------------------------------------------------------------------------
(* What the claims about reloading speak of.                               *)

\* The statistics of a list of records: how many records, how many
\* different keywords.
CountsOf(list) ==
    [trends_count |-> Len(list),
     keywords_count |-> Cardinality({list[i].keyword : i \in 1..Len(list)})]

\* C13: when the most recent startup or reload found the cache file, the
\* table is the whole list of records the file held then, whatever the
\* table was before and however the file was rewritten since; and a request
\* answered since then was answered from that whole list: the statistics of
\* GET / are its counts, the records of GET /trends are its records of the
\* keyword asked for.
C13_TableIsLastLoadedFile ==
    (api_started /\ last_load.found) =>
        /\ trends_data = last_load.held
        /\ response.kind \in {"root", "reload"} =>
              response.stats = CountsOf(last_load.held)
        /\ response.kind = "trends" =>
              LET wanted == SameKeyword(last_load.held, response.request.keyword)
              IN  IF response.status = 200
                  THEN Plain(response.body) = wanted
                  ELSE wanted = <<>>

\* The file was rewritten after the table was loaded from it, with other
\* records, and a lookup since then returned a record of the loaded table.
C13_Witness ==
    /\ api_started
    /\ last_load.found
    /\ cache_file.exists
    /\ Len(cache_file.records) = 2
    /\ Len(trends_data) = 1
    /\ trends_data[1] \notin {cache_file.records[i] : i \in 1..2}
    /\ response.kind = "trends"
    /\ response.status = 200

\* C14: when the most recent startup or reload did not find the cache file,
\* the table is what it was before that call; it is empty when that call
\* was the startup; and the response of that reload has status 200
\* ("success") and the counts of that table.
C14_MissingFileKeepsTable ==
    (api_started /\ ~last_load.found) =>
        /\ trends_data = last_load.before
        /\ response.kind = "none" => trends_data = <<>>
        /\ response.kind = "reload" =>
              /\ response.status = 200
              /\ response.stats = CountsOf(last_load.before)

\* A reload that did not find the file answered with the counts of the two
\* records loaded earlier, which are still the table.
C14_Witness ==
    /\ api_started
    /\ ~last_load.found
    /\ ~cache_file.exists
    /\ Len(trends_data) = 2
    /\ response.kind = "reload"
    /\ response.status = 200
    /\ response.stats.trends_count = 2

=============================================================================
